---------------------------- MODULE Spec2Model ----------------------------
(***************************************************************************)
(* A model of the audio pre-processing pipeline:                           *)
(*   - the stage entry points of src/modules/*.py and the stand-alone      *)
(*     script src/audio_processing.py, as operators from a Python call     *)
(*     (the keywords supplied and their values) and an environment (which  *)
(*     external decode / denoise / encode calls fail) to an outcome;       *)
(*   - the batch driver process_all_audios of src/__main__.py, as a state  *)
(*     machine over the directory listing;                                 *)
(*   - the loudness arithmetic of normalization.py on 16-bit samples;      *)
(*   - the two peak limiters, splitting on silence on a timeline of        *)
(*     100 ms ticks, and the clarity cascade on 16-bit samples.            *)
(*                                                                         *)
(* The specifications share the variables:                                 *)
(*   Spec         the batch driver,                                        *)
(*   SpecFair     the batch driver run to its end, no service failing,     *)
(*   SpecStage    one call of one entry point with arbitrary arguments,    *)
(*   SpecNorm     normalize_audio on concrete sample sequences,            *)
(*   SpecLimit    _apply_peak_limit and apply_limiter on the same buffer,  *)
(*   SpecSeg      segment_audio and silence removal on a timeline,         *)
(*   SpecClarity  the cascade of clarity_enhancement.process_audio.        *)
(***************************************************************************)
EXTENDS Integers, Sequences, FiniteSets, TLC

VARIABLES
    \* ---- batch driver (src/__main__.py)
    pc,          \* position of process_all_audios
    env,         \* the environment: failing service calls, chunks per input
    inputDir,    \* entries of the input directory when the run starts
    segmented,   \* names of the audio/non-audio files in <input_dir>/segmented
    todo,        \* entries os.listdir(input_dir) has still to yield
    curFile,     \* the `path` of the input file being handled, or None
    audio,       \* the driver's local `audio`
    chunkTodo,   \* entries os.listdir(segmented) has still to yield
    calls,       \* the stage calls the driver made, in order
    chunkLog,    \* (input file, segmented entry) pairs the chunk loop body began on
    produced,    \* (input file, chunk file name) pairs segmentation wrote in this run
    attempted,   \* input files whose processing began
    processed,   \* files written under <input_dir>/processed
    error,       \* the exception that ended the run, or "none"
    \* ---- one call of one stage entry point
    hcall,       \* the call: entry point and keyword arguments
    hout,        \* its outcome
    \* ---- normalize_audio on samples
    npc, nIn, nTarget, nLimit, nOut, nErr,
    \* ---- the two peak limiters on samples
    lDone,       \* the limiters that were called
    lIn,         \* the samples given to both
    lLimit,      \* the limit given to both
    lNorm,       \* result of normalization._apply_peak_limit
    lClar,       \* result of clarity_enhancement.apply_limiter
    \* ---- split_on_silence on a loudness timeline
    spc, sIn, sMin, sSkip, sChunks, sJoined,
    \* ---- the cascade of clarity_enhancement.process_audio on samples
    cpc,         \* the sub-stage process_audio runs next
    cIn,         \* the samples process_audio was given
    cAudio,      \* its local `audio`
    cTrace,      \* names of the sub-stages run, in order
    cFrom,       \* the samples the last sub-stage run was given
    cRaw         \* the values the last sub-stage run computed, before their
                 \* conversion to 16-bit samples

drvVars   == <<pc, env, inputDir, segmented, todo, curFile, audio, chunkTodo,
               calls, chunkLog, produced, attempted, processed, error>>
stageVars == <<hcall, hout>>
normVars  == <<npc, nIn, nTarget, nLimit, nOut, nErr>>
limVars   == <<lDone, lIn, lLimit, lNorm, lClar>>
segVars   == <<spc, sIn, sMin, sSkip, sChunks, sJoined>>
clarVars  == <<cpc, cIn, cAudio, cTrace, cFrom, cRaw>>
labVars   == <<limVars, segVars, clarVars>>
vars      == <<drvVars, stageVars, normVars, labVars>>

---------------------------------------------------------------------------
(* Bounds of the model *)

\* most chunks split_on_silence yields for one input
MaxChunks == 2
\* longest sample sequence normalize_audio is run on
MaxLen == 2

---------------------------------------------------------------------------
(* Values *)

\* Python's None
None == [tag |-> "None"]

\* A file name is a sequence of tokens (its base) and an extension; string
\* concatenation is concatenation of token sequences.
Tok(s) == [s |-> s, i |-> -1]
\* the text "_chunk_<i>" of segmentation.py line 61
ChunkTok(i) == [s |-> "_chunk_", i |-> i]
FileName(base, ext) == [base |-> base, ext |-> ext]

\* A path: directory components, base tokens, extension.
Path(dir, name) == [tag |-> "path", dir |-> dir, base |-> name.base, ext |-> name.ext]

\* os.path.dirname
Dirname(p) == p.dir
\* os.path.basename
Basename(p) == FileName(p.base, p.ext)
\* os.path.splitext(...)[0]
Splitext(name) == name.base
\* os.path.join(dir, sub)
JoinDir(dir, sub) == Append(dir, sub)

\* the extensions is_audio_file recognises
AudioExts == {"wav", "mp3", "flac", "aac", "m4a", "ogg"}
is_audio_file(name) == name.ext \in AudioExts

\* An in-memory AudioSegment, abstractly: the file it was decoded from, its
\* format, and the operations applied to it since, in order.
Buffer(origin, rate, bits, ch, hist) ==
    [tag |-> "buf", origin |-> origin, rate |-> rate, bits |-> bits, ch |-> ch, hist |-> hist]
IsBuffer(v) == v.tag = "buf"
Applied(a, op) == [a EXCEPT !.hist = Append(@, op)]

\* the format AudioSegment.from_file finds in a file (one of the formats a
\* recording can have; the stages never depend on which)
NativeFormat == [rate |-> 44100, bits |-> 16, ch |-> 2]

\* AudioSegment.from_file(path), when it succeeds
Decode(path) == Buffer(path, NativeFormat.rate, NativeFormat.bits, NativeFormat.ch, <<>>)
\* whether AudioSegment.from_file(path) succeeds: never for None
Decodable(path, e) == path # None /\ path \notin e.badDecode
\* whether audio.export(path) succeeds
Encodable(path, e) == path \notin e.badEncode
\* how many non-silent runs split_on_silence finds in a buffer
SplitCount(a, e) == IF a.origin \in DOMAIN e.nchunks THEN e.nchunks[a.origin] ELSE 1

\* ---- the outcome of a call
\* ret: the value returned (None when an exception is raised); err: the
\* exception raised or "none"; decoded: the decode calls made, in order;
\* wrote: the files written, in order; transformed: whether any
\* transformation of a buffer was computed.
Outcome(ret, err, decoded, wrote, transformed) ==
    [ret |-> ret, err |-> err, decoded |-> decoded, wrote |-> wrote, transformed |-> transformed]
Raise(err, decoded, wrote, transformed) == Outcome(None, err, decoded, wrote, transformed)
NoOutcome == Outcome(None, "none", <<>>, <<>>, FALSE)
File(path, content) == [path |-> path, content |-> content]

\* ---- Python's argument binding
\* A call is a record of the keywords supplied.  A signature names the
\* parameters, those without a default, and the defaults.
Binds(sig, call) == DOMAIN call \subseteq sig.params /\ sig.required \subseteq DOMAIN call
Arg(sig, call, k) == IF k \in DOMAIN call THEN call[k] ELSE sig.defaults[k]


---------------------------------------------------------------------------
(* The stage entry points *)

Op(s) == [op |-> s, i |-> -1]
\* the i-th run split_on_silence returns
SplitOp(i) == [op |-> "split_on_silence", i |-> i]
List(items) == [tag |-> "list", items |-> items]
MinOf(S) == CHOOSE x \in S : \A y \in S : x <= y

\* <dirname(file_path)>/<subdir>/<base><suffix>.wav
StagePath(file_path, subdir, suffix) ==
    Path(JoinDir(Dirname(file_path), subdir),
         FileName(Append(Splitext(Basename(file_path)), Tok(suffix)), "wav"))

\* ---- format_standardization.py

convert_sample_rate(a, target_sample_rate) ==
    IF a.rate # target_sample_rate THEN [a EXCEPT !.rate = target_sample_rate] ELSE a

\* convert_bit_depth raises ValueError unless this holds
SupportedBitDepth(target_bit_depth) == target_bit_depth \in {16, 24}
convert_bit_depth(a, target_bit_depth) == [a EXCEPT !.bits = target_bit_depth]

convert_channels(a, target_channels) ==
    IF a.ch # target_channels THEN [a EXCEPT !.ch = target_channels] ELSE a

FormatSig ==
    [params   |-> {"file_path", "audio", "target_sample_rate", "target_bit_depth",
                   "target_channels", "save"},
     required |-> {},
     defaults |-> [file_path |-> None, audio |-> None, target_sample_rate |-> 48000,
                   target_bit_depth |-> 24, target_channels |-> 1, save |-> FALSE]]

\* format_standardization.process_audio.  With only a path it probes the
\* file (check_audio_integrity decodes it; a failing probe is printed and
\* ignored) and then decodes it.
FormatProcessAudio(call, e) ==
    IF ~Binds(FormatSig, call) THEN Raise("TypeError", <<>>, <<>>, FALSE)
    ELSE
    LET file_path == Arg(FormatSig, call, "file_path")
        given     == Arg(FormatSig, call, "audio")
        rate      == Arg(FormatSig, call, "target_sample_rate")
        depth     == Arg(FormatSig, call, "target_bit_depth")
        channels  == Arg(FormatSig, call, "target_channels")
        save      == Arg(FormatSig, call, "save")
        decoded   == IF given = None THEN <<file_path, file_path>> ELSE <<>>
    IN  IF given = None /\ file_path = None THEN Raise("ValueError", <<>>, <<>>, FALSE)
        ELSE IF given = None /\ ~Decodable(file_path, e)
        THEN Raise("DecodeError", decoded, <<>>, FALSE)
        ELSE
        LET a0 == IF given = None THEN Decode(file_path) ELSE given
            a1 == convert_sample_rate(a0, rate)
        IN  IF ~SupportedBitDepth(depth) THEN Raise("ValueError", decoded, <<>>, TRUE)
            ELSE
            LET a3  == convert_channels(convert_bit_depth(a1, depth), channels)
            IN  IF ~save THEN Outcome(a3, "none", decoded, <<>>, TRUE)
                ELSE IF file_path = None THEN Raise("ValueError", decoded, <<>>, TRUE)
                ELSE
                LET out == StagePath(file_path, "format-standardized", "_format_standardized")
                IN  IF ~Encodable(out, e) THEN Raise("EncodeError", decoded, <<>>, TRUE)
                    ELSE Outcome(a3, "none", decoded, <<File(out, a3)>>, TRUE)

\* ---- audio_processing.py (the stand-alone standardization script)

ConvertedDir == <<"C:", "Converted">>

LegacySig ==
    [params   |-> {"file_path", "target_sample_rate", "target_bit_depth", "target_channels"},
     required |-> {"file_path"},
     defaults |-> [target_sample_rate |-> 44100, target_bit_depth |-> 16,
                   target_channels |-> 2]]

\* audio_processing.process_audio_file: the decode, the conversions and the
\* export sit in one try block whose handler prints "Conversion failed" and
\* falls through, so the function returns None normally whatever happened.
ProcessAudioFile(call, e) ==
    IF ~Binds(LegacySig, call) THEN Raise("TypeError", <<>>, <<>>, FALSE)
    ELSE
    LET file_path == Arg(LegacySig, call, "file_path")
        rate      == Arg(LegacySig, call, "target_sample_rate")
        depth     == Arg(LegacySig, call, "target_bit_depth")
        channels  == Arg(LegacySig, call, "target_channels")
        decoded   == <<file_path, file_path>>
    IN  IF ~Decodable(file_path, e) THEN Outcome(None, "none", decoded, <<>>, FALSE)
        ELSE
        LET a1 == convert_sample_rate(Decode(file_path), rate)
        IN  IF ~SupportedBitDepth(depth) THEN Outcome(None, "none", decoded, <<>>, TRUE)
            ELSE
            LET a3  == convert_channels(convert_bit_depth(a1, depth), channels)
                out == Path(ConvertedDir,
                            FileName(<<Tok("converted_")>> \o file_path.base, file_path.ext))
            IN  IF ~Encodable(out, e) THEN Outcome(None, "none", decoded, <<>>, TRUE)
                ELSE Outcome(None, "none", decoded, <<File(out, a3)>>, TRUE)

\* ---- segmentation.py

SegmentSig ==
    [params   |-> {"file_path", "audio", "min_silence_len", "silence_thresh",
                   "skip_initial", "output_dir", "file_name"},
     required |-> {},
     defaults |-> [file_path |-> None, audio |-> None, min_silence_len |-> 1400,
                   silence_thresh |-> -40, skip_initial |-> 0,
                   output_dir |-> <<"segmented">>, file_name |-> "audio_chunk"]]

\* <output_dir>/<base_name>_chunk_<i>.wav
ChunkName(base_name, i) == FileName(Append(base_name, ChunkTok(i)), "wav")

\* segmentation.segment_audio: it has no save flag and writes every chunk,
\* in the order of enumerate(chunks); an export that fails leaves the
\* chunks before it on disk.
SegmentAudio(call, e) ==
    IF ~Binds(SegmentSig, call) THEN Raise("TypeError", <<>>, <<>>, FALSE)
    ELSE
    LET file_path  == Arg(SegmentSig, call, "file_path")
        given      == Arg(SegmentSig, call, "audio")
        output_dir == Arg(SegmentSig, call, "output_dir")
        file_name  == Arg(SegmentSig, call, "file_name")
        decoded    == IF given = None THEN <<file_path>> ELSE <<>>
    IN  IF given = None /\ file_path = None THEN Raise("ValueError", <<>>, <<>>, FALSE)
        ELSE IF given = None /\ ~Decodable(file_path, e)
        THEN Raise("DecodeError", decoded, <<>>, FALSE)
        ELSE
        LET a         == IF given = None THEN Decode(file_path) ELSE given
            n         == SplitCount(a, e)
            chunks    == [i \in 1..n |-> Applied(a, SplitOp(i - 1))]
            base_name == IF file_path # None THEN Splitext(Basename(file_path))
                         ELSE <<Tok(file_name)>>
            files     == [i \in 1..n |->
                            File(Path(output_dir, ChunkName(base_name, i - 1)), chunks[i])]
            bad       == {i \in 1..n : ~Encodable(files[i].path, e)}
        IN  IF bad # {}
            THEN Raise("EncodeError", decoded, SubSeq(files, 1, MinOf(bad) - 1), TRUE)
            ELSE Outcome(List(chunks), "none", decoded, files, TRUE)

\* ---- silence_detection.py (the definitions in force: lines 79-137)

SilenceSig ==
    [params |-> {"audio_path"}, required |-> {"audio_path"}, defaults |-> [unused |-> None]]

SilenceOutPath == Path(ConvertedDir, FileName(<<Tok("audio_without_silence")>>, "wav"))

\* a silence stage with the interface the driver's call (__main__.py lines
\* 52-54) assumes: it takes the path under either keyword and returns the
\* buffer without silence, writing nothing
SilenceAcceptingDriverCall(call, e) ==
    LET path == IF "file_path" \in DOMAIN call THEN call["file_path"]
                ELSE call["audio_path"]
    IN  IF ~Decodable(path, e) THEN Raise("DecodeError", <<path>>, <<>>, FALSE)
        ELSE Outcome(Applied(Decode(path), Op("remove_silence")), "none",
                     <<path>>, <<>>, TRUE)

\* silence_detection.process_audio(audio_path): detect_silent_segments
\* decodes the path (there is no check for None), save_audio_without_silence
\* decodes it again, concatenates the runs and always exports them to
\* C:\Converted\audio_without_silence.wav; nothing is returned.
SilenceProcessAudio(call, e) ==
    IF ~Binds(SilenceSig, call) THEN Raise("TypeError", <<>>, <<>>, FALSE)
    ELSE
    LET audio_path == Arg(SilenceSig, call, "audio_path")
    IN  IF ~Decodable(audio_path, e) THEN Raise("DecodeError", <<audio_path>>, <<>>, FALSE)
        ELSE
        LET without == Applied(Decode(audio_path), Op("remove_silence"))
            decoded == <<audio_path, audio_path>>
        IN  IF ~Encodable(SilenceOutPath, e) THEN Raise("EncodeError", decoded, <<>>, TRUE)
            ELSE Outcome(None, "none", decoded, <<File(SilenceOutPath, without)>>, TRUE)

\* ---- normalization.py

\* _export_if_requested: the exception it raises ("none": returns) and the
\* files it writes
ExportIfRequestedMissingPathIgnored(a, input_path, output_suffix, save, subdir, e) ==
    IF ~save \/ input_path = None THEN [err |-> "none", wrote |-> <<>>]
    ELSE LET out == StagePath(input_path, subdir, output_suffix)
         IN  IF ~Encodable(out, e) THEN [err |-> "EncodeError", wrote |-> <<>>]
             ELSE [err |-> "none", wrote |-> <<File(out, a)>>]

ExportIfRequested(a, input_path, output_suffix, save, subdir, e) ==
    IF ~save THEN [err |-> "none", wrote |-> <<>>]
    ELSE IF input_path = None THEN [err |-> "ValueError", wrote |-> <<>>]
    ELSE LET out == StagePath(input_path, subdir, output_suffix)
         IN  IF ~Encodable(out, e) THEN [err |-> "EncodeError", wrote |-> <<>>]
             ELSE [err |-> "none", wrote |-> <<File(out, a)>>]

NormSig ==
    [params   |-> {"audio", "file_path", "target_dbfs", "peak_limit_dbfs", "save"},
     required |-> {},
     defaults |-> [audio |-> None, file_path |-> None, target_dbfs |-> -20,
                   peak_limit_dbfs |-> -1, save |-> FALSE]]

\* normalization.process_audio, which forwards to normalize_audio
NormProcessAudio(call, e) ==
    IF ~Binds(NormSig, call) THEN Raise("TypeError", <<>>, <<>>, FALSE)
    ELSE
    LET input_path == Arg(NormSig, call, "file_path")
        given      == Arg(NormSig, call, "audio")
        save       == Arg(NormSig, call, "save")
        decoded    == IF given = None THEN <<input_path>> ELSE <<>>
    IN  IF given = None /\ input_path = None THEN Raise("ValueError", <<>>, <<>>, FALSE)
        ELSE IF given = None /\ ~Decodable(input_path, e)
        THEN Raise("DecodeError", decoded, <<>>, FALSE)
        ELSE
        LET a0 == IF given = None THEN Decode(input_path) ELSE given
            a2 == Applied(Applied(a0, Op("apply_gain")), Op("_apply_peak_limit"))
            ex == ExportIfRequested(a2, input_path, "_normalized", save, "normalized", e)
        IN  IF ex.err # "none" THEN Raise(ex.err, decoded, ex.wrote, TRUE)
            ELSE Outcome(a2, "none", decoded, ex.wrote, TRUE)

\* ---- clarity_enhancement.py

ClaritySig ==
    [params   |-> {"file_path", "audio", "save"},
     required |-> {},
     defaults |-> [file_path |-> None, audio |-> None, save |-> FALSE]]

\* clarity_enhancement.process_audio
ClarityProcessAudio(call, e) ==
    IF ~Binds(ClaritySig, call) THEN Raise("TypeError", <<>>, <<>>, FALSE)
    ELSE
    LET file_path == Arg(ClaritySig, call, "file_path")
        given     == Arg(ClaritySig, call, "audio")
        save      == Arg(ClaritySig, call, "save")
        decoded   == IF given = None THEN <<file_path>> ELSE <<>>
    IN  IF given = None /\ file_path = None THEN Raise("ValueError", <<>>, <<>>, FALSE)
        ELSE IF given = None /\ ~Decodable(file_path, e)
        THEN Raise("DecodeError", decoded, <<>>, FALSE)
        ELSE
        LET a0 == IF given = None THEN Decode(file_path) ELSE given
            a1 == Applied(a0, Op("high_pass_filter"))
        IN  IF e.denoiseFails THEN Raise("DenoiseError", decoded, <<>>, TRUE)
            ELSE
            LET a4 == Applied(Applied(Applied(a1, Op("neural_noise_reduction")),
                                      Op("apply_equalization")), Op("apply_limiter"))
            IN  IF ~save THEN Outcome(a4, "none", decoded, <<>>, TRUE)
                ELSE IF file_path = None THEN Raise("ValueError", decoded, <<>>, TRUE)
                ELSE
                LET out == StagePath(file_path, "clarity-enhanced", "_clarity_enhanced")
                IN  IF ~Encodable(out, e) THEN Raise("EncodeError", decoded, <<>>, TRUE)
                    ELSE Outcome(a4, "none", decoded, <<File(out, a4)>>, TRUE)


---------------------------------------------------------------------------
(* The batch driver: process_all_audios of src/__main__.py *)

\* os.listdir yields the entries of a directory in arbitrary order
Perms(S) ==
    {f \in [1..Cardinality(S) -> S] : \A x \in S : \E i \in 1..Cardinality(S) : f[i] = x}

Entry(name, isFile) == [name |-> name, isFile |-> isFile]
Made(stage, args, out) == [stage |-> stage, args |-> args, out |-> out]

\* os.path.abspath(input_dir)
InputDirPath == <<"input">>
SegmentedDir == JoinDir(InputDirPath, "segmented")
ProcessedDir == JoinDir(InputDirPath, "processed")

\* the file silence_detection.py names at line 140 and processes when the
\* module is imported (line 143)
HardcodedAudioPath ==
    Path(<<"C:", "Users", "nadee", "Downloads">>,
         FileName(<<Tok("WhatsApp Ptt 2025-04-15 at 11.56.04")>>, "ogg"))

\* ---- the directories the model is run on
NameA    == FileName(<<Tok("a")>>, "wav")
NameA2   == FileName(<<Tok("a")>>, "mp3")
NameTxt  == FileName(<<Tok("notes")>>, "txt")
NameSub  == FileName(<<Tok("takes")>>, "wav")
InputCandidates ==
    {Entry(NameA, TRUE), Entry(NameA2, TRUE), Entry(NameTxt, TRUE), Entry(NameSub, FALSE)}
AudioInputPaths == {Path(InputDirPath, NameA), Path(InputDirPath, NameA2)}
\* left in segmented/ by an earlier run
StaleChunk == Entry(ChunkName(<<Tok("a")>>, 1), TRUE)
SegmentedCandidates == {StaleChunk, Entry(FileName(<<Tok("readme")>>, "txt"), TRUE)}

DriverEnvs ==
    [badDecode      : SUBSET {Path(InputDirPath, NameA), HardcodedAudioPath},
     badEncode      : {{}, {Path(SegmentedDir, ChunkName(<<Tok("a")>>, 1))}},
     denoiseFails   : BOOLEAN,
     nchunks        : [AudioInputPaths -> 0..MaxChunks],
     save_steps     : BOOLEAN]

\* lines 50-71: the body of the chunk loop for the entry `file` of
\* segmented/, as the calls it makes, the exception that ends it ("none":
\* it completes) and the file it persists
ChunkBody(input_dir, file, save_steps, e) ==
    LET file_path == Path(JoinDir(input_dir, "segmented"), file)
        c2 == ("file_path" :> file_path) @@ ("save" :> save_steps)
        o2 == SilenceProcessAudio(c2, e)
        c3 == ("audio" :> o2.ret) @@ ("file_path" :> file_path) @@ ("save" :> save_steps)
        o3 == NormProcessAudio(c3, e)
        c4 == ("audio" :> o3.ret) @@ ("file_path" :> file_path) @@ ("save" :> save_steps)
        o4 == ClarityProcessAudio(c4, e)
        k2 == Made("silence_detection", c2, o2)
        k3 == Made("normalization", c3, o3)
        k4 == Made("clarity_enhancement", c4, o4)
        output_file_path == Path(JoinDir(input_dir, "processed"), file)
    IN  IF o2.err # "none" THEN [calls |-> <<k2>>, err |-> o2.err, persisted |-> <<>>]
        ELSE IF o3.err # "none"
        THEN [calls |-> <<k2, k3>>, err |-> o3.err, persisted |-> <<>>]
        ELSE IF o4.err # "none"
        THEN [calls |-> <<k2, k3, k4>>, err |-> o4.err, persisted |-> <<>>]
        ELSE IF ~Encodable(output_file_path, e)
        THEN [calls |-> <<k2, k3, k4>>, err |-> "EncodeError", persisted |-> <<>>]
        ELSE [calls |-> <<k2, k3, k4>>, err |-> "none",
              persisted |-> <<File(output_file_path, o4.ret)>>]

StageIdle == hcall = None /\ hout = NoOutcome
NormIdle ==
    /\ npc = "idle" /\ nIn = <<>> /\ nTarget = 0 /\ nLimit = 0 /\ nOut = <<>>
    /\ nErr = "none"
LimIdle == lDone = {} /\ lIn = <<>> /\ lLimit = 0 /\ lNorm = <<>> /\ lClar = <<>>
SegIdle ==
    /\ spc = "idle" /\ sIn = <<>> /\ sMin = 0 /\ sSkip = 0 /\ sChunks = <<>>
    /\ sJoined = <<>>
ClarIdle ==
    /\ cpc = "idle" /\ cIn = <<>> /\ cAudio = <<>> /\ cTrace = <<>> /\ cFrom = <<>>
    /\ cRaw = <<>>
LabIdle == LimIdle /\ SegIdle /\ ClarIdle

Init ==
    /\ pc = "import"
    /\ env \in DriverEnvs
    /\ inputDir \in (SUBSET InputCandidates) \ {{}}
    /\ segmented \in SUBSET SegmentedCandidates
    /\ todo = <<>>
    /\ curFile = None
    /\ audio = None
    /\ chunkTodo = <<>>
    /\ calls = <<>>
    /\ chunkLog = <<>>
    /\ produced = {}
    /\ attempted = {}
    /\ processed = {}
    /\ error = "none"
    /\ StageIdle
    /\ NormIdle
    /\ LabIdle

\* `from modules import silence_detection` runs the module, whose last
\* line calls process_audio on the hard-coded path: an exception there
\* ends the program before process_all_audios is entered.
DriverImport ==
    /\ pc = "import"
    /\ LET c == "audio_path" :> HardcodedAudioPath
           o == SilenceProcessAudio(c, env)
       IN  /\ calls' = <<>>
           /\ IF o.err # "none"
              THEN pc' = "aborted" /\ error' = o.err
              ELSE pc' = "listdir" /\ error' = error
    /\ UNCHANGED <<env, inputDir, segmented, todo, curFile, audio, chunkTodo, chunkLog,
                   produced, attempted, processed, stageVars, normVars, labVars>>

\* line 23: os.listdir(input_dir), evaluated once
DriverListDir ==
    /\ pc = "listdir"
    /\ todo' \in Perms(inputDir)
    /\ pc' = "file"
    /\ UNCHANGED <<env, inputDir, segmented, curFile, audio, chunkTodo, calls, chunkLog,
                   produced, attempted, processed, error, stageVars, normVars, labVars>>

\* lines 26-27: not a file, or not an audio file
DriverSkipEntry ==
    /\ pc = "file" /\ todo # <<>>
    /\ ~Head(todo).isFile \/ ~is_audio_file(Head(todo).name)
    /\ todo' = Tail(todo)
    /\ UNCHANGED <<pc, env, inputDir, segmented, curFile, audio, chunkTodo, calls,
                   chunkLog, produced, attempted, processed, error, stageVars, normVars, labVars>>

\* lines 29-38: format standardization of the next input file
DriverStandardize ==
    /\ pc = "file" /\ todo # <<>>
    /\ Head(todo).isFile /\ is_audio_file(Head(todo).name)
    /\ LET path == Path(InputDirPath, Head(todo).name)
           c == ("file_path" :> path) @@ ("save" :> env.save_steps)
                @@ ("target_sample_rate" :> 16000) @@ ("target_bit_depth" :> 16)
                @@ ("target_channels" :> 1)
           o == FormatProcessAudio(c, env)
       IN  /\ curFile' = path
           /\ attempted' = attempted \cup {path}
           /\ calls' = Append(calls, Made("format_standardization", c, o))
           /\ IF o.err # "none"
              THEN pc' = "aborted" /\ error' = o.err /\ audio' = audio
              ELSE pc' = "segment" /\ error' = error /\ audio' = o.ret
    /\ todo' = Tail(todo)
    /\ UNCHANGED <<env, inputDir, segmented, chunkTodo, chunkLog, produced, processed,
                   stageVars, normVars, labVars>>

\* segmentation writing its chunks into the input directory itself, with a
\* loop over the directory that sees the entries added while it runs
DriverSegmentIntoInputDir ==
    /\ pc = "segment"
    /\ LET c == ("audio" :> audio) @@ ("file_path" :> curFile)
                @@ ("output_dir" :> InputDirPath)
           o == SegmentAudio(c, env)
           names == {Entry(Basename(o.wrote[i].path), TRUE) : i \in DOMAIN o.wrote}
       IN  /\ calls' = Append(calls, Made("segmentation", c, o))
           /\ inputDir' = inputDir \cup names
           /\ \E added \in Perms(names \ inputDir) : todo' = todo \o added
           /\ produced' = produced \cup {<<curFile, n.name>> : n \in names}
           /\ IF o.err # "none"
              THEN pc' = "aborted" /\ error' = o.err
              ELSE pc' = "listchunks" /\ error' = error
    /\ UNCHANGED <<env, segmented, curFile, audio, chunkTodo, chunkLog, attempted,
                   processed, stageVars, normVars, labVars>>

\* lines 40-42: segmentation; its return value is dropped
DriverSegment ==
    /\ pc = "segment"
    /\ LET c == ("audio" :> audio) @@ ("file_path" :> curFile)
                @@ ("output_dir" :> SegmentedDir)
           o == SegmentAudio(c, env)
           names == {Entry(Basename(o.wrote[i].path), TRUE) : i \in DOMAIN o.wrote}
       IN  /\ calls' = Append(calls, Made("segmentation", c, o))
           /\ segmented' = segmented \cup names
           /\ produced' = produced \cup {<<curFile, n.name>> : n \in names}
           /\ IF o.err # "none"
              THEN pc' = "aborted" /\ error' = o.err
              ELSE pc' = "listchunks" /\ error' = error
    /\ UNCHANGED <<env, inputDir, todo, curFile, audio, chunkTodo, chunkLog, attempted,
                   processed, stageVars, normVars, labVars>>

\* line 44: os.listdir(<input_dir>/segmented), evaluated once per input file
DriverListChunks ==
    /\ pc = "listchunks"
    /\ chunkTodo' \in Perms(segmented)
    /\ pc' = "chunk"
    /\ UNCHANGED <<env, inputDir, segmented, todo, curFile, audio, calls, chunkLog,
                   produced, attempted, processed, error, stageVars, normVars, labVars>>

\* lines 47-48
DriverSkipChunkEntry ==
    /\ pc = "chunk" /\ chunkTodo # <<>>
    /\ ~Head(chunkTodo).isFile \/ ~is_audio_file(Head(chunkTodo).name)
    /\ chunkTodo' = Tail(chunkTodo)
    /\ UNCHANGED <<pc, env, inputDir, segmented, todo, curFile, audio, calls, chunkLog,
                   produced, attempted, processed, error, stageVars, normVars, labVars>>

\* lines 50-71: silence removal, normalization, enhancement and the final
\* export of one entry of segmented/
DriverProcessChunk ==
    /\ pc = "chunk" /\ chunkTodo # <<>>
    /\ Head(chunkTodo).isFile /\ is_audio_file(Head(chunkTodo).name)
    /\ LET file == Head(chunkTodo).name
           b == ChunkBody(InputDirPath, file, env.save_steps, env)
       IN  /\ chunkLog' = Append(chunkLog, <<curFile, file>>)
           /\ calls' = calls \o b.calls
           /\ processed' = {f \in processed : \A i \in DOMAIN b.persisted :
                                f.path # b.persisted[i].path}
                           \cup {b.persisted[i] : i \in DOMAIN b.persisted}
           /\ IF b.err # "none"
              THEN pc' = "aborted" /\ error' = b.err /\ audio' = audio
              ELSE pc' = pc /\ error' = error
                   /\ audio' = b.calls[Len(b.calls)].out.ret
    /\ chunkTodo' = Tail(chunkTodo)
    /\ UNCHANGED <<env, inputDir, segmented, todo, curFile, produced, attempted,
                   stageVars, normVars, labVars>>

\* the chunk loop is exhausted: back to the loop over the input directory
DriverEndChunks ==
    /\ pc = "chunk" /\ chunkTodo = <<>>
    /\ pc' = "file"
    /\ UNCHANGED <<env, inputDir, segmented, todo, curFile, audio, chunkTodo, calls,
                   chunkLog, produced, attempted, processed, error, stageVars, normVars, labVars>>

\* the loop over the input directory is exhausted: the function returns
DriverReturn ==
    /\ pc = "file" /\ todo = <<>>
    /\ pc' = "done"
    /\ UNCHANGED <<env, inputDir, segmented, todo, curFile, audio, chunkTodo, calls,
                   chunkLog, produced, attempted, processed, error, stageVars, normVars, labVars>>

Next ==
    \/ DriverImport
    \/ DriverListDir
    \/ DriverSkipEntry
    \/ DriverStandardize
    \/ DriverSegment
    \/ DriverListChunks
    \/ DriverSkipChunkEntry
    \/ DriverProcessChunk
    \/ DriverEndChunks
    \/ DriverReturn

Spec == Init /\ [][Next]_vars

---------------------------------------------------------------------------
(* One call of one entry point, with any arguments *)

\* a recording and the standardized buffer decoded from it
P1 == Path(<<"data">>, FileName(<<Tok("rec")>>, "mp3"))
B1 == Buffer(P1, 16000, 16, 1, <<>>)

NoKeywords == [k \in {} |-> None]
\* a keyword left out, passed as None, or passed with a value
OptKw(k, choice, v) ==
    CASE choice = "absent" -> NoKeywords
      [] choice = "none"   -> (k :> None)
      [] OTHER             -> (k :> v)
ArgChoices == {"absent", "none", "given"}
\* save left out, False or True
SaveKw(choice) ==
    CASE choice = "absent" -> NoKeywords
      [] choice = "false"  -> ("save" :> FALSE)
      [] OTHER             -> ("save" :> TRUE)
SaveChoices == {"absent", "false", "true"}
\* target_bit_depth left out (0) or passed
DepthKw(d) == IF d = 0 THEN NoKeywords ELSE ("target_bit_depth" :> d)
DepthChoices == {0, 8, 16, 24, 32}

\* every file a call on P1 or B1 can write
HarnessOutPaths ==
    {StagePath(P1, "format-standardized", "_format_standardized"),
     StagePath(P1, "normalized", "_normalized"),
     StagePath(P1, "clarity-enhanced", "_clarity_enhanced"),
     SilenceOutPath,
     Path(ConvertedDir, FileName(<<Tok("converted_")>> \o P1.base, P1.ext))}
    \cup {Path(<<"segmented">>, ChunkName(b, i)) :
            b \in {P1.base, <<Tok("audio_chunk")>>}, i \in 0..MaxChunks}

HarnessEnvs ==
    [badDecode      : SUBSET {P1},
     badEncode      : {{}, HarnessOutPaths},
     denoiseFails   : BOOLEAN,
     nchunks        : [{P1} -> 0..MaxChunks],
     save_steps     : {FALSE}]

DriverIdle ==
    /\ pc = "idle" /\ inputDir = {} /\ segmented = {} /\ todo = <<>> /\ curFile = None
    /\ audio = None /\ chunkTodo = <<>> /\ calls = <<>> /\ chunkLog = <<>>
    /\ produced = {} /\ attempted = {} /\ processed = {} /\ error = "none"

InitStage ==
    /\ DriverIdle
    /\ env \in HarnessEnvs
    /\ StageIdle
    /\ NormIdle
    /\ LabIdle

CallFormat ==
    \E fp \in ArgChoices, au \in ArgChoices, sv \in SaveChoices, d \in DepthChoices :
        LET c == OptKw("file_path", fp, P1) @@ OptKw("audio", au, B1) @@ SaveKw(sv)
                 @@ DepthKw(d)
        IN  /\ hcall = None
            /\ hcall' = [stage |-> "format_standardization", args |-> c]
            /\ hout' = FormatProcessAudio(c, env)
            /\ UNCHANGED <<drvVars, normVars, labVars>>

CallLegacy ==
    \E fp \in ArgChoices, d \in DepthChoices :
        LET c == OptKw("file_path", fp, P1) @@ DepthKw(d)
        IN  /\ hcall = None
            /\ hcall' = [stage |-> "audio_processing", args |-> c]
            /\ hout' = ProcessAudioFile(c, env)
            /\ UNCHANGED <<drvVars, normVars, labVars>>

CallSegment ==
    \E fp \in ArgChoices, au \in ArgChoices :
        LET c == OptKw("file_path", fp, P1) @@ OptKw("audio", au, B1)
        IN  /\ hcall = None
            /\ hcall' = [stage |-> "segmentation", args |-> c]
            /\ hout' = SegmentAudio(c, env)
            /\ UNCHANGED <<drvVars, normVars, labVars>>

\* with audio_path, or with the keywords the driver passes
CallSilence ==
    \/ \E ap \in ArgChoices :
        LET c == OptKw("audio_path", ap, P1)
        IN  /\ hcall = None
            /\ hcall' = [stage |-> "silence_detection", args |-> c]
            /\ hout' = SilenceProcessAudio(c, env)
            /\ UNCHANGED <<drvVars, normVars, labVars>>
    \/ \E fp \in ArgChoices, sv \in SaveChoices :
        LET c == OptKw("file_path", fp, P1) @@ SaveKw(sv)
        IN  /\ hcall = None
            /\ hcall' = [stage |-> "silence_detection", args |-> c]
            /\ hout' = SilenceProcessAudio(c, env)
            /\ UNCHANGED <<drvVars, normVars, labVars>>

CallNormalize ==
    \E fp \in ArgChoices, au \in ArgChoices, sv \in SaveChoices :
        LET c == OptKw("file_path", fp, P1) @@ OptKw("audio", au, B1) @@ SaveKw(sv)
        IN  /\ hcall = None
            /\ hcall' = [stage |-> "normalization", args |-> c]
            /\ hout' = NormProcessAudio(c, env)
            /\ UNCHANGED <<drvVars, normVars, labVars>>

CallClarity ==
    \E fp \in ArgChoices, au \in ArgChoices, sv \in SaveChoices :
        LET c == OptKw("file_path", fp, P1) @@ OptKw("audio", au, B1) @@ SaveKw(sv)
        IN  /\ hcall = None
            /\ hcall' = [stage |-> "clarity_enhancement", args |-> c]
            /\ hout' = ClarityProcessAudio(c, env)
            /\ UNCHANGED <<drvVars, normVars, labVars>>

NextStage ==
    \/ CallFormat
    \/ CallLegacy
    \/ CallSegment
    \/ CallSilence
    \/ CallNormalize
    \/ CallClarity

SpecStage == InitStage /\ [][NextStage]_vars

---------------------------------------------------------------------------
(* The driver's data flow and control flow (under Spec) *)

PerChunkStages == {"silence_detection", "normalization", "clarity_enhancement"}
ServiceErrors == {"DecodeError", "DenoiseError", "EncodeError"}

\* the buffer a driver call hands to its stage: the `audio` keyword
HandedBuffer(k) == IF "audio" \in DOMAIN k.args THEN k.args["audio"] ELSE None

\* C1: every per-chunk stage call of the driver receives an in-memory
\* buffer and decodes nothing; normalization receives the buffer silence
\* removal returned, enhancement the buffer normalization returned, and
\* every file under processed/ holds a buffer enhancement returned.
C1_StagesThreadBuffers ==
    /\ \A i \in DOMAIN calls :
        LET k == calls[i]
        IN  /\ k.stage \in PerChunkStages =>
                IsBuffer(HandedBuffer(k)) /\ k.out.decoded = <<>>
            /\ k.stage \in {"normalization", "clarity_enhancement"} =>
                /\ i > 1
                /\ calls[i - 1].stage =
                     (IF k.stage = "normalization" THEN "silence_detection"
                      ELSE "normalization")
                /\ HandedBuffer(k) = calls[i - 1].out.ret
    /\ \A f \in processed :
        \E i \in DOMAIN calls :
            calls[i].stage = "clarity_enhancement" /\ calls[i].out.ret = f.content

\* C2: a decode, denoise or encode failure while an input file is being
\* handled does not end the run; the run ends only by returning, with
\* every audio file of the listing attempted.
C2_BatchSurvivesFileFailure ==
    /\ ~(pc = "aborted" /\ curFile # None /\ error \in ServiceErrors)
    /\ pc = "done" =>
        \A n \in inputDir :
            n.isFile /\ is_audio_file(n.name) => Path(InputDirPath, n.name) \in attempted

\* whether entry j of chunkLog is a chunk that segmenting its input file
\* wrote in this run
OwnChunk(j) == <<chunkLog[j][1], chunkLog[j][2]>> \in produced
\* the own chunks of input file f that chunkLog holds before position j
EarlierOf(f, j) == {i \in 1..(j - 1) : chunkLog[i][1] = f /\ OwnChunk(i)}

\* C3: segmentation writes the i-th run as <base>_chunk_<i>, and the
\* k-th of its own chunks the driver works on for an input file is that
\* file's chunk number k, counting from 0.
C3_ChunksInIndexOrder ==
    /\ \A i \in DOMAIN calls :
        calls[i].stage = "segmentation" =>
            \A j \in DOMAIN calls[i].out.wrote :
                LET w == calls[i].out.wrote[j]
                IN  /\ w.path.base[Len(w.path.base)] = ChunkTok(j - 1)
                    /\ w.content.hist[Len(w.content.hist)] = SplitOp(j - 1)
    /\ \A j \in DOMAIN chunkLog :
        OwnChunk(j) =>
        chunkLog[j][2] =
            ChunkName(Splitext(Basename(chunkLog[j][1])),
                      Cardinality(EarlierOf(chunkLog[j][1], j)))

\* C4: the chunk loop of input file F works only on chunks that
\* segmenting F wrote in this run, and on each of them at most once over
\* the whole run.
C4_OnlyOwnChunksOnce ==
    /\ \A j \in DOMAIN chunkLog : <<chunkLog[j][1], chunkLog[j][2]>> \in produced
    /\ \A i, j \in DOMAIN chunkLog : chunkLog[i][2] = chunkLog[j][2] => i = j

\* C5: every call the driver makes binds to the signature of the entry
\* point it calls, and a call that returns returns a value, not None.
C5_DriverCallsAccepted ==
    \A i \in DOMAIN calls :
        /\ calls[i].out.err # "TypeError"
        /\ calls[i].out.err = "none" => calls[i].out.ret # None

---------------------------------------------------------------------------
(* Input errors of the entry points (under SpecStage) *)

PipelineStages ==
    {"format_standardization", "segmentation", "silence_detection", "normalization",
     "clarity_enhancement"}
SignatureOf(stage) ==
    CASE stage = "format_standardization" -> FormatSig
      [] stage = "audio_processing"       -> LegacySig
      [] stage = "segmentation"           -> SegmentSig
      [] stage = "silence_detection"      -> SilenceSig
      [] stage = "normalization"          -> NormSig
      [] OTHER                            -> ClaritySig
HasCall == hcall # None
Bound == HasCall /\ Binds(SignatureOf(hcall.stage), hcall.args)
\* the value a keyword of the call has, None when it is left out
Kw(k) == IF k \in DOMAIN hcall.args THEN hcall.args[k] ELSE None
NoPathGiven == Kw("file_path") = None /\ Kw("audio_path") = None
NoBufferGiven == Kw("audio") = None
SaveAsked == "save" \in DOMAIN hcall.args /\ hcall.args["save"]
NoServiceFails == env.badDecode = {} /\ env.badEncode = {} /\ ~env.denoiseFails

\* C6: a call of a pipeline stage with neither a path nor a buffer raises
\* an input error before any decode, transformation or write, and returns
\* nothing.
C6_NeitherRaisesAtOnce ==
    HasCall /\ hcall.stage \in PipelineStages /\ NoPathGiven /\ NoBufferGiven =>
        /\ hout.err \in {"ValueError", "TypeError"}
        /\ hout.ret = None
        /\ hout.decoded = <<>>
        /\ hout.wrote = <<>>
        /\ ~hout.transformed

\* C7: a standardization entry point called with a target bit depth other
\* than 16 and 24 raises: it does not return normally, returns no buffer
\* and writes no file.
C7_BadDepthRaises ==
    /\ Bound
    /\ hcall.stage \in {"format_standardization", "audio_processing"}
    /\ "target_bit_depth" \in DOMAIN hcall.args
    /\ hcall.args["target_bit_depth"] \notin {16, 24}
    => hout.err # "none" /\ hout.ret = None /\ hout.wrote = <<>>

\* C8 as stated: a writing stage (standardization, segmentation,
\* normalization, enhancement) asked to persist a buffer whose source path
\* is unknown raises an input error and writes no file.  Segmentation has
\* no save flag: every call of it on a buffer that holds a speech run is a
\* request to persist.  Stated for an environment in which no service call
\* fails.
C8_PersistWithoutPathRaises ==
    /\ Bound /\ NoServiceFails
    /\ hcall.stage \in {"format_standardization", "segmentation", "normalization",
                        "clarity_enhancement"}
    /\ NoPathGiven /\ ~NoBufferGiven
    /\ SaveAsked \/ (hcall.stage = "segmentation" /\ SplitCount(Kw("audio"), env) > 0)
    => hout.err = "ValueError" /\ hout.wrote = <<>>

\* C8 amended: standardization, normalization and enhancement, asked to
\* save a buffer whose source path is unknown, write no file and raise an
\* input error (enhancement raises the denoise failure instead when the
\* denoise call fails, which comes first); segmentation, called with a
\* buffer only, raises no input error and writes each chunk it exports as
\* <output_dir>/<file_name>_chunk_<i>.wav.
C8_SaveWithoutPathRaises ==
    /\ Bound /\ NoPathGiven /\ ~NoBufferGiven /\ SaveAsked
       /\ hcall.stage \in {"format_standardization", "normalization", "clarity_enhancement"}
       => /\ hout.wrote = <<>>
          /\ hout.ret = None
          /\ \/ hout.err = "ValueError"
             \/ hcall.stage = "clarity_enhancement" /\ env.denoiseFails
                /\ hout.err = "DenoiseError"
    /\ Bound /\ NoPathGiven /\ ~NoBufferGiven /\ hcall.stage = "segmentation"
       => /\ hout.err \in {"none", "EncodeError"}
          /\ hout.err = "none" => Len(hout.wrote) = SplitCount(Kw("audio"), env)
          /\ \A i \in DOMAIN hout.wrote :
                hout.wrote[i].path =
                    Path(<<"segmented">>, ChunkName(<<Tok("audio_chunk")>>, i - 1))

\* normalization was asked to save a buffer with no path and raised
C8_Witness ==
    /\ Bound /\ hcall.stage = "normalization"
    /\ NoPathGiven /\ ~NoBufferGiven /\ SaveAsked
    /\ hout.err = "ValueError"

---------------------------------------------------------------------------
(* Loudness arithmetic on 16-bit samples (normalization.py) *)

(***************************************************************************)
(* A buffer is its sequence of 16-bit samples.  pydub measures levels in   *)
(* dBFS and scales with audioop.mul:                                       *)
(*     rms       = floor(sqrt(sum x^2 / n))            (audioop.rms)       *)
(*     dBFS      = 20 log10(rms / 32768), -inf for 0   (AudioSegment.dBFS) *)
(*     max_dBFS  = 20 log10(max|x| / 32768)                                *)
(*     apply_gain(g) = audioop.mul(data, 2, 10^(g/20))                     *)
(* A level of L dBFS is held here as the amplitude 32768 * 10^(L/20), in   *)
(* half sample steps: level h stands for h/2 sample steps, that is for     *)
(* 20 log10(h / 65536) dBFS.  Comparing two levels in dB is comparing      *)
(* their amplitudes, and a gain of (a - b) dB is the factor amplitude(a) / *)
(* amplitude(b), so every step below is exact integer arithmetic.          *)
(***************************************************************************)

\* AudioSegment.max_possible_amplitude of 16-bit audio
MaxPossibleAmplitude == 32768
\* the 16-bit sample range
MaxSample == 32767
MinSample == -32768

Abs(x) == IF x < 0 THEN -x ELSE x
FloorDiv(a, b) == a \div b
TruncDiv(a, b) == IF a >= 0 THEN a \div b ELSE -((-a) \div b)
Clamp(v) == IF v > MaxSample THEN MaxSample ELSE IF v < MinSample THEN MinSample ELSE v

RECURSIVE SqrtSearch(_, _, _)
\* the largest r in lo..hi with r * r <= x
SqrtSearch(x, lo, hi) ==
    IF lo = hi THEN lo
    ELSE LET mid == (lo + hi + 1) \div 2
         IN  IF mid * mid <= x THEN SqrtSearch(x, mid, hi) ELSE SqrtSearch(x, lo, mid - 1)
ISqrt(x) == SqrtSearch(x, 0, MaxPossibleAmplitude)

RECURSIVE SumOver(_, _)
\* the sum of f[i] over the set I
SumOver(f, I) ==
    IF I = {} THEN 0
    ELSE LET i == CHOOSE j \in I : TRUE IN f[i] + SumOver(f, I \ {i})

\* audioop.rms: floor(sqrt(mean square)), 0 for no samples.  The mean is
\* summed as quotients and remainders so that no intermediate leaves 32 bits.
Rms(samples) ==
    IF samples = <<>> THEN 0
    ELSE LET n  == Len(samples)
             sq == [i \in 1..n |-> samples[i] * samples[i]]
             q  == SumOver([i \in 1..n |-> sq[i] \div n], 1..n)
             r  == SumOver([i \in 1..n |-> sq[i] % n], 1..n)
         IN  ISqrt(q + r \div n)

\* audioop.max: the largest absolute sample, 0 for no samples
MaxAbs(samples) ==
    IF samples = <<>> THEN 0
    ELSE LET m == CHOOSE i \in DOMAIN samples :
                     \A j \in DOMAIN samples : Abs(samples[j]) <= Abs(samples[i])
         IN  Abs(samples[m])

\* audioop.mul of one sample by num/den; den = 0 stands for the factor
\* +infinity (a gain of +inf dB).  The C audioop saturates and rounds
\* towards minus infinity, and converts the NaN of 0 * inf to an int, which
\* C leaves undefined (e.nanSample); pydub's fallback pyaudioop truncates
\* towards zero.
MulSample(x, num, den, e) ==
    IF den = 0
    THEN IF x > 0 THEN MaxSample ELSE IF x < 0 THEN MinSample ELSE e.nanSample
    ELSE Clamp(IF e.audioop = "C" THEN FloorDiv(x * num, den) ELSE TruncDiv(x * num, den))

\* pyaudioop's int(sample * factor) raises for an infinite or NaN product
MulError(samples, den, e) ==
    IF den = 0 /\ e.audioop = "py" /\ samples # <<>>
    THEN IF samples[1] = 0 THEN "ValueError" ELSE "OverflowError"
    ELSE "none"

\* AudioSegment.apply_gain by the factor num/den
apply_gain(samples, num, den, e) ==
    [i \in DOMAIN samples |-> MulSample(samples[i], num, den, e)]

\* _loudness_dbfs taken from the peak instead of the average
LoudnessOfPeak(samples) == MaxAbs(samples)

\* _loudness_dbfs: audio.dBFS, as the amplitude it is the level of (0: -inf)
LoudnessDbfs(samples) == Rms(samples)

\* _apply_peak_limit that never attenuates
ApplyPeakLimitOff(samples, peak_limit, e) == samples

\* _apply_peak_limit: peak_limit in half sample steps
ApplyPeakLimit(samples, peak_limit, e) ==
    LET peak == MaxAbs(samples)
    IN  IF 2 * peak > peak_limit THEN apply_gain(samples, peak_limit, 2 * peak, e)
        ELSE samples

\* Levels are amplitudes in half sample steps (h stands for
\* 20*log10(h/65536) dBFS), so the factor 10^((target - dBFS)/20) is the
\* exact ratio target/(2*rms).  The floating-point factor of the code can
\* differ from it only where the exact product is an integer, and then by
\* one sample step.
\* normalize_audio, step 2: the buffer after apply_gain(target - dBFS)
Gained(samples, target, e) == apply_gain(samples, target, 2 * LoudnessDbfs(samples), e)
\* the exception step 2 raises, or "none"
GainError(samples, e) == MulError(samples, 2 * LoudnessDbfs(samples), e)

\* normalize_audio on an in-memory buffer with save=False: samples returned
NormalizeSamples(samples, target, peak_limit, e) ==
    ApplyPeakLimit(Gained(samples, target, e), peak_limit, e)

\* ---- the buffers and levels the arithmetic is run on
SampleValues == {MinSample, -20000, -1000, -1, 0, 1, 3, 1000, 20000, MaxSample}
SampleBuffers == UNION {[1..n -> SampleValues] : n \in 0..MaxLen}
\* -20 dBFS (the default), -1 dBFS, and 1.5 sample steps
TargetLevels == {6554, 58409, 3}
\* -1 dBFS (the default), about -30 dBFS, and 0 dBFS
LimitLevels == {58409, 2001, 65536}
NormEnvs ==
    [audioop : {"C"}, nanSample : {0, -1}] \cup [audioop : {"py"}, nanSample : {0}]

InitNorm ==
    /\ DriverIdle
    /\ StageIdle
    /\ LabIdle
    /\ env \in NormEnvs
    /\ npc = "ready"
    /\ nIn \in SampleBuffers
    /\ nTarget \in TargetLevels
    /\ nLimit \in LimitLevels
    /\ nOut = <<>>
    /\ nErr = "none"

\* normalize_audio(audio=nIn, target_dbfs=nTarget, peak_limit_dbfs=nLimit)
NormalizeAudio ==
    /\ npc = "ready"
    /\ IF GainError(nIn, env) # "none"
       THEN npc' = "raised" /\ nErr' = GainError(nIn, env) /\ nOut' = nOut
       ELSE npc' = "done" /\ nErr' = nErr
            /\ nOut' = NormalizeSamples(nIn, nTarget, nLimit, env)
    /\ UNCHANGED <<drvVars, stageVars, labVars, nIn, nTarget, nLimit>>

NextNorm == NormalizeAudio

SpecNorm == InitNorm /\ [][NextNorm]_vars

\* normalize_audio returned a buffer whose average level is not -inf
NormalizedNonSilent == npc = "done" /\ LoudnessDbfs(nIn) > 0
\* the gain of step 2 drives a sample out of the 16-bit range
Saturates ==
    \E i \in DOMAIN nIn :
        LET v == FloorDiv(nIn[i] * nTarget, 2 * LoudnessDbfs(nIn))
        IN  v > MaxSample \/ v < MinSample
\* the peak after the gain of step 2 is above the peak limit
LimiterActs == 2 * MaxAbs(Gained(nIn, nTarget, env)) > nLimit
\* average and target of at least 64 sample steps (about -54 dBFS)
AboveQuantisation == LoudnessDbfs(nIn) >= 64 /\ nTarget >= 128

C9_AverageWithinHalfDbAnyLevel ==
    NormalizedNonSilent =>
        /\ 2 * Rms(nOut) * 10000 < nTarget * 10593
        /\ 2 * Rms(nOut) * 10593 > nTarget * 10000

SilentInput == npc # "ready" /\ LoudnessDbfs(nIn) = 0
\* the factor of step 2, target/(2*rms), is finite
GainIsFinite == 2 * LoudnessDbfs(nIn) # 0

\* C11: normalizing a silent or empty buffer applies no gain: the gain is
\* finite, no error is raised and the samples returned are the input's.
C11_SilentBufferUnchanged ==
    SilentInput => GainIsFinite /\ nErr = "none" /\ npc = "done" /\ nOut = nIn

(***************************************************************************)
(* The two peak limiters (normalization.py, clarity_enhancement.py)        *)
(***************************************************************************)

\* -1.0 dBFS, the default of apply_limiter, in half sample steps
DefaultMaxDbfs == 58409

\* apply_limiter that scales to the limit whatever the peak is
ApplyLimiterAlwaysScales(samples, max_dbfs, e) ==
    LET peak == MaxAbs(samples)
    IN  IF peak > 0 THEN apply_gain(samples, max_dbfs, 2 * peak, e) ELSE samples

\* clarity_enhancement.apply_limiter: max_dbfs in half sample steps
apply_limiter(samples, max_dbfs, e) ==
    LET peak == MaxAbs(samples)
    IN  IF 2 * peak > max_dbfs THEN apply_gain(samples, max_dbfs, 2 * peak, e)
        ELSE samples

InitLimit ==
    /\ DriverIdle
    /\ StageIdle
    /\ NormIdle
    /\ SegIdle
    /\ ClarIdle
    /\ env \in NormEnvs
    /\ lDone = {}
    /\ lIn \in SampleBuffers
    /\ lLimit \in LimitLevels
    /\ lNorm = <<>>
    /\ lClar = <<>>

\* _apply_peak_limit(lIn, lLimit)
CallApplyPeakLimit ==
    /\ "_apply_peak_limit" \notin lDone
    /\ lDone' = lDone \cup {"_apply_peak_limit"}
    /\ lNorm' = ApplyPeakLimit(lIn, lLimit, env)
    /\ UNCHANGED <<drvVars, stageVars, normVars, segVars, clarVars, lIn, lLimit, lClar>>

\* apply_limiter(lIn, lLimit)
CallApplyLimiter ==
    /\ "apply_limiter" \notin lDone
    /\ lDone' = lDone \cup {"apply_limiter"}
    /\ lClar' = apply_limiter(lIn, lLimit, env)
    /\ UNCHANGED <<drvVars, stageVars, normVars, segVars, clarVars, lIn, lLimit, lNorm>>

NextLimit == CallApplyPeakLimit \/ CallApplyLimiter

SpecLimit == InitLimit /\ [][NextLimit]_vars

\* the peak of the samples given to the limiters is at or below the limit
PeakWithinLimit == 2 * MaxAbs(lIn) <= lLimit
\* no sample of out is larger in magnitude than the sample of lIn it stands for
NotAmplified(out) ==
    /\ Len(out) = Len(lIn)
    /\ \A i \in DOMAIN lIn : Abs(out[i]) <= Abs(lIn[i])

\* C12: neither limiter amplifies; a buffer whose peak is at or below the
\* limit comes back unchanged from both; on every input the two limiters
\* return the same samples.
C12_LimitersNeverAmplify ==
    /\ "_apply_peak_limit" \in lDone =>
           NotAmplified(lNorm) /\ (PeakWithinLimit => lNorm = lIn)
    /\ "apply_limiter" \in lDone =>
           NotAmplified(lClar) /\ (PeakWithinLimit => lClar = lIn)
    /\ lDone = {"_apply_peak_limit", "apply_limiter"} => lNorm = lClar

\* both limiters have returned on a sounding buffer whose peak is within
\* the limit
C12_Witness ==
    /\ lDone = {"_apply_peak_limit", "apply_limiter"}
    /\ PeakWithinLimit
    /\ MaxAbs(lIn) > 0

(***************************************************************************)
(* Splitting on silence (segmentation.py, silence_detection.py).           *)
(* A buffer is a loudness timeline: one amplitude per tick of 100 ms, the  *)
(* rms of the samples of that tick.  pydub.silence is run with a seek step *)
(* of one tick; positions and lengths are counted in ticks, and the        *)
(* midpoint of two positions is taken on the tick grid.                    *)
(***************************************************************************)

\* most runs of constant loudness in a timeline
MaxRuns == 3

\* keep_silence=300 of segment_audio, in ticks
KeepSilence == 3
\* keep_silence of split_on_silence when the caller passes none (100 ms)
DefaultKeepSilence == 1
\* silence_thresh=-40: db_to_float(-40) * 32768 = 327.68; an rms (an int)
\* is at or below it when it is at most 327
SilenceThresh == 327

Max2(a, b) == IF a > b THEN a ELSE b
Min2(a, b) == IF a < b THEN a ELSE b

\* audio[a:b], positions from 0, clipped to the buffer
Slice(buf, a, b) == SubSeq(buf, Max2(a, 0) + 1, Min2(b, Len(buf)))

RECURSIVE SortedSeq(_)
\* the elements of a set of integers in ascending order
SortedSeq(S) ==
    IF S = {} THEN <<>>
    ELSE LET lo == CHOOSE x \in S : \A y \in S : x <= y
         IN  <<lo>> \o SortedSeq(S \ {lo})

\* detect_silence: audio_slice.rms <= silence_thresh for the slice of
\* min_silence_len that starts at i
WindowSilent(buf, i, min_silence_len) ==
    Rms(Slice(buf, i, i + min_silence_len)) <= SilenceThresh

RECURSIVE SilentRangesFrom(_, _, _, _, _)
\* detect_silence: the loop that joins the silent slice starts into ranges
SilentRangesFrom(starts, k, current_range_start, prev_i, min_silence_len) ==
    IF k > Len(starts)
    THEN << <<current_range_start, prev_i + min_silence_len>> >>
    ELSE LET silence_start_i == starts[k]
             continuous      == silence_start_i = prev_i + 1
             silence_has_gap == silence_start_i > prev_i + min_silence_len
         IN  IF ~continuous /\ silence_has_gap
             THEN << <<current_range_start, prev_i + min_silence_len>> >>
                  \o SilentRangesFrom(starts, k + 1, silence_start_i,
                                      silence_start_i, min_silence_len)
             ELSE SilentRangesFrom(starts, k + 1, current_range_start,
                                   silence_start_i, min_silence_len)

\* detect_silence, after the scan: no silent slice, no range; else the
\* joining loop, begun on the first silent slice
JoinSilentStarts(starts, min_silence_len) ==
    IF starts = <<>> THEN <<>>
    ELSE SilentRangesFrom(starts, 2, starts[1], starts[1], min_silence_len)

\* pydub.silence.detect_silence: the [start, end) ranges of silence
detect_silence(buf, min_silence_len) ==
    IF Len(buf) < min_silence_len THEN <<>>
    ELSE JoinSilentStarts(SortedSeq({i \in 0..(Len(buf) - min_silence_len) :
                                        WindowSilent(buf, i, min_silence_len)}),
                          min_silence_len)

\* the ranges that lie between two silent ranges
OnlyBetween(silent_ranges) ==
    IF silent_ranges = <<>> THEN <<>>
    ELSE [k \in 1..(Len(silent_ranges) - 1) |->
             <<silent_ranges[k][2], silent_ranges[k + 1][1]>>]

\* detect_nonsilent that finds nothing where detect_silence finds nothing
DetectNonsilentOnlyBetween(buf, min_silence_len) ==
    OnlyBetween(detect_silence(buf, min_silence_len))

\* detect_nonsilent, given the silent ranges of a buffer of len_seg ticks
NonsilentBetween(silent_ranges, len_seg) ==
    LET n == Len(silent_ranges)
    IN  IF n = 0 THEN << <<0, len_seg>> >>
        ELSE IF silent_ranges[1] = <<0, len_seg>> THEN <<>>
        ELSE LET between == [k \in 1..n |->
                                <<IF k = 1 THEN 0 ELSE silent_ranges[k - 1][2],
                                  silent_ranges[k][1]>>]
                 all     == IF silent_ranges[n][2] # len_seg
                            THEN Append(between, <<silent_ranges[n][2], len_seg>>)
                            ELSE between
             IN  IF all[1] = <<0, 0>> THEN Tail(all) ELSE all

\* pydub.silence.detect_nonsilent: the ranges between the silent ones
detect_nonsilent(buf, min_silence_len) ==
    NonsilentBetween(detect_silence(buf, min_silence_len), Len(buf))

\* the slice of the buffer for each range, unpadded
SliceEach(buf, ranges) ==
    [k \in DOMAIN ranges |-> Slice(buf, ranges[k][1], ranges[k][2])]

\* split_on_silence that adds no keep_silence
SplitWithoutPadding(buf, min_silence_len, keep_silence) ==
    SliceEach(buf, detect_nonsilent(buf, min_silence_len))

\* split_on_silence, given the non-silent ranges: keep_silence is added on
\* both sides of each; two neighbours that would overlap meet half way
PaddedSlices(buf, ranges, keep_silence) ==
    LET n      == Len(ranges)
        padded == [k \in 1..n |-> <<ranges[k][1] - keep_silence,
                                    ranges[k][2] + keep_silence>>]
        start(k) == IF k > 1 /\ padded[k][1] < padded[k - 1][2]
                    THEN (padded[k - 1][2] + padded[k][1]) \div 2
                    ELSE padded[k][1]
        end(k)   == IF k < n /\ padded[k + 1][1] < padded[k][2]
                    THEN (padded[k][2] + padded[k + 1][1]) \div 2
                    ELSE padded[k][2]
    IN  [k \in 1..n |-> Slice(buf, start(k), end(k))]

\* pydub.silence.split_on_silence
split_on_silence(buf, min_silence_len, keep_silence) ==
    PaddedSlices(buf, detect_nonsilent(buf, min_silence_len), keep_silence)

\* segmentation.segment_audio on a buffer: lines 41-49
SegmentTimeline(buf, skip_initial, min_silence_len) ==
    split_on_silence(Slice(buf, skip_initial, Len(buf)), min_silence_len, KeepSilence)

RECURSIVE Concat(_)
\* audio_without_silence += segment, for every segment in turn
Concat(segments) ==
    IF segments = <<>> THEN <<>> ELSE Head(segments) \o Concat(Tail(segments))

\* silence_detection: detect_silent_segments, then the concatenation that
\* save_audio_without_silence exports
RemoveSilence(buf, min_silence_len) ==
    Concat(split_on_silence(buf, min_silence_len, DefaultKeepSilence))

\* ---- the timelines split_on_silence is run on
\* amplitude of a tick: digital silence, about -37 dBFS, about -4 dBFS
TickLevels == {0, 464, 20000}
\* length of a run of constant loudness, in ticks
RunLengths == {1, 5, 15}

RECURSIVE Expand(_)
\* the timeline of a sequence of <<level, length>> runs
Expand(runs) ==
    IF runs = <<>> THEN <<>>
    ELSE [t \in 1..Head(runs)[2] |-> Head(runs)[1]] \o Expand(Tail(runs))

Timelines ==
    {Expand(r) : r \in UNION {[1..n -> TickLevels \X RunLengths] : n \in 0..MaxRuns}}
\* min_silence_len: 400 ms and the default of segment_audio, 1400 ms
MinSilenceChoices == {4, 14}
\* skip_initial: the default 0, and 300 ms
SkipChoices == {0, 3}

InitSeg ==
    /\ DriverIdle
    /\ StageIdle
    /\ NormIdle
    /\ LimIdle
    /\ ClarIdle
    /\ env = [audioop |-> "C", nanSample |-> 0]
    /\ spc = "ready"
    /\ sIn \in Timelines
    /\ sMin \in MinSilenceChoices
    /\ sSkip \in SkipChoices
    /\ sChunks = <<>>
    /\ sJoined = <<>>

\* segment_audio(audio=sIn, skip_initial=sSkip, min_silence_len=sMin): the
\* chunks it returns
SegmentBuffer ==
    /\ spc = "ready"
    /\ spc' = "segmented"
    /\ sChunks' = SegmentTimeline(sIn, sSkip, sMin)
    /\ UNCHANGED <<drvVars, stageVars, normVars, limVars, clarVars, sIn, sMin, sSkip,
                   sJoined>>

\* detect_silent_segments(path of sIn, min_silence_len=sMin), then
\* save_audio_without_silence: the buffer it exports
RemoveSilenceFromBuffer ==
    /\ spc = "ready"
    /\ spc' = "joined"
    /\ sJoined' = RemoveSilence(sIn, sMin)
    /\ UNCHANGED <<drvVars, stageVars, normVars, limVars, clarVars, sIn, sMin, sSkip,
                   sChunks>>

NextSeg == SegmentBuffer \/ RemoveSilenceFromBuffer

SpecSeg == InitSeg /\ [][NextSeg]_vars

\* ---- what the description of segmentation says of a timeline
\* the local loudness of tick t is at or below the silence threshold
SilentTick(buf, t) == Abs(buf[t]) <= SilenceThresh
\* tick t lies in a silent run of at least min_silence_len ticks: some
\* min_silence_len consecutive ticks, t among them, are all silent
InGap(buf, t, min_silence_len) ==
    \E a \in Max2(1, t - min_silence_len + 1)..Min2(t, Len(buf) - min_silence_len + 1) :
        \A u \in a..(a + min_silence_len - 1) : SilentTick(buf, u)
\* the speech runs <<s, e>> (ticks s+1..e): the maximal stretches outside
\* every gap, in temporal order
SpeechRuns(buf, min_silence_len) ==
    LET out    == [t \in 1..Len(buf) |-> ~InGap(buf, t, min_silence_len)]
        first  == {s \in 1..Len(buf) : out[s] /\ (s = 1 \/ ~out[s - 1])}
        ends   == {e \in 1..Len(buf) : out[e] /\ (e = Len(buf) \/ ~out[e + 1])}
        last(s) == CHOOSE e \in ends : e >= s /\ \A f \in ends : f >= s => e <= f
        starts == SortedSeq(first)
    IN  [k \in DOMAIN starts |-> <<starts[k] - 1, last(starts[k])>>]
\* every tick of the buffer is silent
AllSilent(buf) == \A t \in DOMAIN buf : SilentTick(buf, t)
\* every sounding tick is loud enough to lift, alone, the rms of a slice of
\* min_silence_len above the threshold
Pronounced(buf, min_silence_len) ==
    \A v \in {buf[t] : t \in DOMAIN buf} :
        \/ Abs(v) <= SilenceThresh
        \/ Rms([i \in 1..min_silence_len |-> IF i = 1 THEN v ELSE 0]) > SilenceThresh

\* one chunk per speech run, each run with keep ticks of the gap on both
\* sides; none for a buffer that is silent throughout
ChunksAsDescribed(buf, min_silence_len, keep) ==
    IF AllSilent(buf) THEN <<>>
    ELSE LET runs == SpeechRuns(buf, min_silence_len)
         IN  [k \in DOMAIN runs |-> Slice(buf, runs[k][1] - keep, runs[k][2] + keep)]

\* one chunk per speech run, each run with keep ticks of the gap on both
\* sides, or with the gap up to its midpoint where the gap is shorter than
\* 2 * keep; the empty buffer gives one empty chunk
ChunksMeetingHalfWay(buf, min_silence_len, keep) ==
    IF buf = <<>> THEN << <<>> >>
    ELSE LET runs == SpeechRuns(buf, min_silence_len)
             n    == Len(runs)
             from(k) == IF k > 1 /\ runs[k][1] - runs[k - 1][2] < 2 * keep
                        THEN (runs[k - 1][2] + runs[k][1]) \div 2
                        ELSE runs[k][1] - keep
             to(k)   == IF k < n /\ runs[k + 1][1] - runs[k][2] < 2 * keep
                        THEN (runs[k][2] + runs[k + 1][1]) \div 2
                        ELSE runs[k][2] + keep
         IN  [k \in 1..n |-> Slice(buf, from(k), to(k))]

\* the buffer segment_audio splits: sIn without its first sSkip ticks
Skipped == Slice(sIn, sSkip, Len(sIn))

C14_JoinedIsConcatOfChunks ==
    spc = "joined" => sJoined = Concat(SegmentTimeline(sIn, sSkip, sMin))

\* no silent run of the buffer lasts min_silence_len
NoQualifyingGap(buf, min_silence_len) ==
    \A t \in DOMAIN buf : ~InGap(buf, t, min_silence_len)
\* no slice of min_silence_len has an rms at or below the threshold
NoSilentSlice(buf, min_silence_len) ==
    \A i \in 0..(Len(buf) - min_silence_len) : ~WindowSilent(buf, i, min_silence_len)

---------------------------------------------------------------------------
(* Files of a driver run (under Spec) *)

\* the stages that take the save flag from the driver
SavingStages ==
    {"format_standardization", "silence_detection", "normalization",
     "clarity_enhancement"}
\* path p names a file of a directory that lies directly in input_dir
InStageDirOfInput(p) ==
    /\ Len(p.dir) = Len(InputDirPath) + 1
    /\ SubSeq(p.dir, 1, Len(InputDirPath)) = InputDirPath

\* C16: with save_steps set, every stage call of the run that no service
\* failure ended wrote one file <input_dir>/<stage-name>/<base>_<stage>.wav,
\* <base> being the base name of the file the stage was called for;
\* without save_steps such a call wrote nothing; and every chunk the chunk
\* loop worked on is in <input_dir>/processed under the chunk's file name.
C16_IntermediatesUnderInputDir ==
    /\ \A i \in DOMAIN calls :
        LET k == calls[i]
        IN  k.stage \in SavingStages /\ k.out.err \notin ServiceErrors =>
                IF env.save_steps
                THEN /\ Len(k.out.wrote) = 1
                     /\ InStageDirOfInput(k.out.wrote[1].path)
                     /\ k.out.wrote[1].path.ext = "wav"
                     /\ Head(k.out.wrote[1].path.base)
                            = Head(Splitext(Basename(k.args["file_path"])))
                ELSE k.out.wrote = <<>>
    /\ error \notin ServiceErrors =>
        \A j \in DOMAIN chunkLog :
            \E f \in processed : f.path = Path(ProcessedDir, chunkLog[j][2])

---------------------------------------------------------------------------
(* The cascade of clarity_enhancement.process_audio on 16-bit samples.     *)
(* scipy's sosfilt, DeepFilterNet's enhance and pydub's two equalization   *)
(* filters are services: each returns one value per sample given, any of   *)
(* the values listed for it.  What the module does with these values (the  *)
(* conversion to int16, the clip, the gain, the limiter) is computed.      *)
(***************************************************************************)

\* size of the 16-bit sample range
SampleRange == 65536

\* numpy's astype(np.int16) of a float whose integer part is v: v itself
\* inside the 16-bit range; outside it the low 16 bits of v, for every v
\* that fits 32 bits
AsInt16(v) == ((v - MinSample) % SampleRange) + MinSample

\* values sosfilt returns (integer parts): a 10th-order high-pass
\* overshoots at a full-scale step, up to about twice the step
HpValues == {-40000, 0, 20000, 40000}
\* values enhance returns, times 32768.0 (integer parts)
DfValues == {-40000, -1, 20000, 40000}
\* values pydub's low_pass_filter and high_pass_filter return
EqValues == {MinSample, 0, 1000, MaxSample}
\* the buffers process_audio is given
ClarityInputs ==
    UNION {[1..n -> {0, MaxSample}] : n \in 0..MaxLen}

\* high_pass_filter: sosfilt(...).astype(np.int16)
high_pass_filter(filtered) == [i \in DOMAIN filtered |-> AsInt16(filtered[i])]
\* neural_noise_reduction: enhanced_samples.clip(-32768, 32767).astype(np.int16)
neural_noise_reduction(enhanced) ==
    [i \in DOMAIN enhanced |-> AsInt16(Clamp(enhanced[i]))]
\* apply_equalization: `audio += 3` after the two filters, the factor
\* 10^(3/20) taken as 1.4125
apply_equalization(filtered, e) == apply_gain(filtered, 14125, 10000, e)

InitClarity ==
    /\ DriverIdle
    /\ StageIdle
    /\ NormIdle
    /\ LimIdle
    /\ SegIdle
    /\ env \in NormEnvs
    /\ cpc = "high_pass_filter"
    /\ cIn \in ClarityInputs
    /\ cAudio = cIn
    /\ cTrace = <<>>
    /\ cFrom = <<>>
    /\ cRaw = <<>>

\* line 111: audio = high_pass_filter(audio)
ClarityHighPass ==
    /\ cpc = "high_pass_filter"
    /\ \E filtered \in [DOMAIN cAudio -> HpValues] :
        /\ cRaw' = filtered
        /\ cAudio' = high_pass_filter(filtered)
    /\ cFrom' = cAudio
    /\ cTrace' = Append(cTrace, "high_pass_filter")
    /\ cpc' = "neural_noise_reduction"
    /\ UNCHANGED <<drvVars, stageVars, normVars, limVars, segVars, cIn>>

\* line 114: audio = neural_noise_reduction(audio)
ClarityDenoise ==
    /\ cpc = "neural_noise_reduction"
    /\ \E enhanced \in [DOMAIN cAudio -> DfValues] :
        /\ cRaw' = enhanced
        /\ cAudio' = neural_noise_reduction(enhanced)
    /\ cFrom' = cAudio
    /\ cTrace' = Append(cTrace, "neural_noise_reduction")
    /\ cpc' = "apply_equalization"
    /\ UNCHANGED <<drvVars, stageVars, normVars, limVars, segVars, cIn>>

\* line 114, when enhance raises: process_audio ends with its exception
ClarityDenoiseFails ==
    /\ cpc = "neural_noise_reduction"
    /\ cpc' = "raised"
    /\ UNCHANGED <<drvVars, stageVars, normVars, limVars, segVars, cIn, cAudio, cTrace,
                   cFrom, cRaw>>

\* line 117: audio = apply_equalization(audio)
ClarityEqualize ==
    /\ cpc = "apply_equalization"
    /\ \E filtered \in [DOMAIN cAudio -> EqValues] :
        /\ cRaw' = filtered
        /\ cAudio' = apply_equalization(filtered, env)
    /\ cFrom' = cAudio
    /\ cTrace' = Append(cTrace, "apply_equalization")
    /\ cpc' = "apply_limiter"
    /\ UNCHANGED <<drvVars, stageVars, normVars, limVars, segVars, cIn>>

\* the cascade that returns without limiting
ClarityLimitSkipped ==
    /\ cpc = "apply_limiter"
    /\ cpc' = "done"
    /\ UNCHANGED <<drvVars, stageVars, normVars, limVars, segVars, cIn, cAudio, cTrace,
                   cFrom, cRaw>>

\* lines 120-137: audio = apply_limiter(audio); return audio
ClarityLimit ==
    /\ cpc = "apply_limiter"
    /\ cAudio' = apply_limiter(cAudio, DefaultMaxDbfs, env)
    /\ cRaw' = cAudio
    /\ cFrom' = cAudio
    /\ cTrace' = Append(cTrace, "apply_limiter")
    /\ cpc' = "done"
    /\ UNCHANGED <<drvVars, stageVars, normVars, limVars, segVars, cIn>>

NextClarity ==
    \/ ClarityHighPass
    \/ ClarityDenoise
    \/ ClarityDenoiseFails
    \/ ClarityEqualize
    \/ ClarityLimit

SpecClarity == InitClarity /\ [][NextClarity]_vars

\* the sub-stages in the order of the cascade
CascadeOrder ==
    <<"high_pass_filter", "neural_noise_reduction", "apply_equalization",
      "apply_limiter">>
\* the sub-stage run last
LastRun == IF cTrace = <<>> THEN "none" ELSE cTrace[Len(cTrace)]
\* every 16-bit sample is the value it was computed as, brought to the
\* nearest bound of the range
Saturated == cAudio = [i \in DOMAIN cRaw |-> Clamp(cRaw[i])]
\* the sub-stages run so far are the first of the cascade, in its order
RunInOrder ==
    /\ Len(cTrace) <= Len(CascadeOrder)
    /\ cTrace = SubSeq(CascadeOrder, 1, Len(cTrace))
\* a step that runs a sub-stage gives it the output of the one before
ConsumesPrevious == cTrace' # cTrace => cFrom' = cAudio

C18_HighPassSaturates ==
    LastRun = "high_pass_filter" => Saturated


---------------------------------------------------------------------------
(* Output paths of one batch run (under Spec) *)

\* the chunks written under segmented/ so far in this run, each as
\* <<input file, chunk index, path>>
SegmentedWrites ==
    UNION {{<<calls[i].args["file_path"], j - 1, calls[i].out.wrote[j].path>> :
                j \in DOMAIN calls[i].out.wrote} :
           i \in {k \in DOMAIN calls : calls[k].stage = "segmentation"}}

\* line 69: the result of segmented/<file> goes to processed/<file>
ProcessedPathOf(chunk_path) == Path(ProcessedDir, Basename(chunk_path))

---------------------------------------------------------------------------
(* Termination of one batch run (under SpecFair) *)

\* a run in which every external service works: each file decodes, the
\* denoise call returns, each export succeeds
InitServicesWork ==
    /\ Init
    /\ env.badDecode = {} /\ env.badEncode = {} /\ ~env.denoiseFails

\* The driver is one sequential thread: the interpreter takes its next
\* step whenever there is one.
SpecFair == InitServicesWork /\ [][Next]_vars /\ WF_vars(Next)

\* the files the calls of this run have written so far, each with the
\* stage that wrote it
WrittenFiles ==
    UNION {{<<calls[i].stage, calls[i].out.wrote[j].path>> :
                j \in DOMAIN calls[i].out.wrote} : i \in DOMAIN calls}

\* line 23: the loop runs over the list os.listdir returned, which only
\* gets shorter
InputsFixed ==
    /\ inputDir' = inputDir
    /\ pc # "listdir" => todo' = todo \/ (todo # <<>> /\ todo' = Tail(todo))

\* nothing is written where the loop over the input directory would find
\* a file, and under segmented/ only segmentation writes
NothingWrittenIsListed ==
    \A w \in WrittenFiles :
        /\ w[2].dir # InputDirPath
        /\ w[2].dir = SegmentedDir => w[1] = "segmentation"

\* a chunk written in this run is worked on only in the chunk loop of the
\* input file it was cut from
ChunksStayWithTheirFile ==
    \A j \in DOMAIN chunkLog : \A p \in produced :
        p[2] = chunkLog[j][2] => p[1] = chunkLog[j][1]

===========================================================================
